---------------------------- MODULE Spec2Model ----------------------------
(***************************************************************************)
(* warp-real-ip: resolution of the "real" client address of a request from *)
(* the socket peer address and the forwarding headers (x-forwarded-for,    *)
(* x-real-ip, forwarded), as implemented in src/src/lib.rs.                *)
(*                                                                         *)
(* Text is modelled as a sequence of symbols.  The punctuation the code    *)
(* inspects (double quote, backslash, comma, space, tab, brackets) is one  *)
(* symbol per character.  The textual form of an IP address ("1.2.3.4",    *)
(* "::1") is one indivisible symbol: IpAddr::from_str accepts a text only  *)
(* when the whole text is an address, so a text parses exactly when it is  *)
(* a single address symbol.  Byte offsets of the code (usize indices into  *)
(* the target) are symbol offsets here, 0-based as in the code.            *)
(*                                                                         *)
(* Option<T> is a sequence of length at most one: None is << >> and        *)
(* Some(x) is <<x>>.                                                       *)
(***************************************************************************)
EXTENDS Naturals, Sequences, FiniteSets

VARIABLES
    trusted_proxies,  \* real_ip's trusted_proxies: Vec<IpAddr> (only `contains` is used)
    addr,             \* the socket peer, remote(): Option<SocketAddr> (the ip of it)
    headers,          \* the request's x-forwarded-for / x-real-ip / forwarded values
    forwarded_for,    \* what get_forwarded_for() extracted: Vec<IpAddr>
    result,           \* what the real_ip filter yields for the request
    pc,               \* where the request is in the filter chain
    target,           \* CommaSeparatedIterator.target
    char_indices,     \* CommaSeparatedIterator.char_indices: offset of the next char
    state,            \* CommaSeparatedIterator.state
    s,                \* CommaSeparatedIterator.s
    items,            \* the slices next() has returned so far, in order
    nones,            \* how many times next() has returned None
    tasks,            \* the requests being served concurrently by one filter
    arg,              \* the text handed to maybe_quoted / maybe_bracketed
    ret               \* what that call returned

vars == <<trusted_proxies, addr, headers, forwarded_for, result, pc,
          target, char_indices, state, s, items, nones, tasks, arg, ret>>

reqVars == <<trusted_proxies, addr, headers, forwarded_for, result, pc>>
iterVars == <<target, char_indices, state, s, items, nones>>
callVars == <<arg, ret>>

----------------------------------------------------------------------------
(* Bounds of the model. *)

\* longest target handed to a stepped CommaSeparatedIterator
MaxTarget == 4
\* calls of next() made after the iterator first returned None
MaxNoneCalls == 2
\* most addresses in the x-forwarded-for value of a resolver request
MaxHops == 3
\* most entries over the three headers of a header request
MaxHeaderEntries == 2
\* most addresses in the x-forwarded-for value of a trust request
MaxTrustHops == 2
\* most requests served concurrently by one filter
MaxTasks == 2
\* longest text handed to maybe_quoted / maybe_bracketed on its own
MaxText == 4

----------------------------------------------------------------------------
(* Symbols. *)

Quote == "\""
Backslash == "\\"
Comma == ","
Space == " "
Tab == "\t"
LBracket == "["
RBracket == "]"
\* a byte outside visible ASCII (obs-text), which HeaderValue::to_str refuses
NonAscii == "<80>"

None == << >>
Some(x) == <<x>>

\* every sequence over S of length at most n
RECURSIVE SeqsUpTo(_, _)
SeqsUpTo(S, n) ==
    IF n = 0 THEN { << >> }
    ELSE LET shorter == SeqsUpTo(S, n - 1)
         IN  shorter \cup { Append(w, c) : w \in shorter, c \in S }

\* &x[lo..hi] of the code: 0-based, half-open
Slice(x, lo, hi) == SubSeq(x, lo + 1, hi)

----------------------------------------------------------------------------
(* CommaSeparatedIterator (lib.rs 79-176). *)

CommaSeparatedIteratorState ==
    {"Default", "Quoted", "QuotedPair", "Token", "PostAmbleForQuoted"}

\* One arm of `match self.state` gives (next, next_state), and may set self.s:
\* [next |-> Option<slice>, state |-> next_state, s |-> self.s afterwards],
\* a slice being [lo |-> , hi |-> ] for &self.target[lo..hi].
Arm(next, next_state, new_s) == [next |-> next, state |-> next_state, s |-> new_s]

\* a variant in which a comma met in the Default state yields nothing
DefaultArmSkipsEmpty(c, i, cur_s) ==
    IF c = Quote THEN Arm(None, "Quoted", i)
    ELSE IF c = Space \/ c = Tab \/ c = Comma THEN Arm(None, "Default", cur_s)
    ELSE Arm(None, "Token", i)

DefaultArm(c, i, cur_s) ==
    IF c = Quote THEN Arm(None, "Quoted", i)
    ELSE IF c = Space \/ c = Tab THEN Arm(None, "Default", cur_s)
    ELSE IF c = Comma THEN Arm(Some([lo |-> i, hi |-> i]), "Default", cur_s)
    ELSE Arm(None, "Token", i)

\* a variant in which a comma ends a quoted token
QuotedArmCommaEnds(c, i, cur_s) ==
    IF c = Quote THEN Arm(Some([lo |-> cur_s, hi |-> i + 1]), "PostAmbleForQuoted", cur_s)
    ELSE IF c = Comma THEN Arm(Some([lo |-> cur_s, hi |-> i]), "Default", cur_s)
    ELSE IF c = Backslash THEN Arm(None, "QuotedPair", cur_s)
    ELSE Arm(None, "Quoted", cur_s)

QuotedArm(c, i, cur_s) ==
    IF c = Quote THEN Arm(Some([lo |-> cur_s, hi |-> i + 1]), "PostAmbleForQuoted", cur_s)
    ELSE IF c = Backslash THEN Arm(None, "QuotedPair", cur_s)
    ELSE Arm(None, "Quoted", cur_s)

\* a variant in which a double quote after a backslash closes the token
QuotedPairArmQuoteCloses(c, i, cur_s) ==
    IF c = Quote THEN Arm(Some([lo |-> cur_s, hi |-> i + 1]), "PostAmbleForQuoted", cur_s)
    ELSE Arm(None, "Quoted", cur_s)

QuotedPairArm(c, i, cur_s) == Arm(None, "Quoted", cur_s)

TokenArm(c, i, cur_s) ==
    IF c = Comma THEN Arm(Some([lo |-> cur_s, hi |-> i]), "Default", cur_s)
    ELSE Arm(None, "Token", cur_s)

\* a variant in which the comma that ends the post-amble yields an empty slice
PostAmbleCommaYields(c, i, cur_s) ==
    IF c = Comma THEN Arm(Some([lo |-> i, hi |-> i]), "Default", cur_s)
    ELSE Arm(None, "PostAmbleForQuoted", cur_s)

PostAmbleForQuotedArm(c, i, cur_s) ==
    IF c = Comma THEN Arm(None, "Default", cur_s)
    ELSE Arm(None, "PostAmbleForQuoted", cur_s)

MatchState(st, c, i, cur_s) ==
    CASE st = "Default" -> DefaultArm(c, i, cur_s)
      [] st = "Quoted" -> QuotedArm(c, i, cur_s)
      [] st = "QuotedPair" -> QuotedPairArm(c, i, cur_s)
      [] st = "Token" -> TokenArm(c, i, cur_s)
      [] st = "PostAmbleForQuoted" -> PostAmbleForQuotedArm(c, i, cur_s)

\* a variant that yields nothing for the token in progress at the end
AtEndNoFlush(tgt, st, cur_s) == [item |-> None, state |-> st]

\* The match after the while loop: the chars are exhausted.
AtEnd(tgt, st, cur_s) ==
    IF st \in {"Default", "PostAmbleForQuoted"}
    THEN [item |-> None, state |-> st]
    ELSE [item |-> Some([lo |-> cur_s, hi |-> Len(tgt)]), state |-> "Default"]

\* One call of next() on an iterator over tgt whose char_indices stands at
\* offset pos: what it returns and the iterator's fields afterwards.
RECURSIVE IterNext(_, _, _, _)
IterNext(tgt, pos, st, cur_s) ==
    IF pos >= Len(tgt)
    THEN LET e == AtEnd(tgt, st, cur_s)
         IN  [item |-> e.item, pos |-> pos, state |-> e.state, s |-> cur_s]
    ELSE \* a is bound as a value, so the arm is computed once per character
         CHOOSE r \in
           { IF a.next # None
             THEN [item |-> a.next, pos |-> pos + 1, state |-> a.state, s |-> a.s]
             ELSE IterNext(tgt, pos + 1, a.state, a.s)
             : a \in {MatchState(st, tgt[pos + 1], pos, cur_s)} } : TRUE

\* CommaSeparatedIterator::new(target) driven to exhaustion: every slice it
\* yields, in order.
RECURSIVE Drain(_, _, _, _)
Drain(tgt, pos, st, cur_s) ==
    LET r == IterNext(tgt, pos, st, cur_s)
    IN  IF r.item = None THEN << >>
        ELSE <<r.item[1]>> \o Drain(tgt, r.pos, r.state, r.s)

CommaSeparatedIteratorNew(tgt) == Drain(tgt, 0, "Default", 0)

\* self.state and self.s when the while loop finds the chars exhausted: the
\* arms applied to every char of tgt from offset pos on
RECURSIVE ScanToEnd(_, _, _, _)
ScanToEnd(tgt, pos, st, cur_s) ==
    IF pos >= Len(tgt) THEN [state |-> st, s |-> cur_s]
    ELSE LET a == MatchState(st, tgt[pos + 1], pos, cur_s)
         IN  ScanToEnd(tgt, pos + 1, a.state, a.s)

----------------------------------------------------------------------------
(* IpAddr and IpAddr::from_str (std, called at lib.rs 55 and 232). *)

\* An IpAddr is V4 with its four octets or V6 with its eight segments; equality
\* is equality of family and of every octet / segment.
IpV4(a, b, c, d) == [family |-> "V4", parts |-> <<a, b, c, d>>]
IpV6(h) == [family |-> "V6", parts |-> h]

\* The address texts of the model, each one symbol.
AddrTexts == {"1.2.3.4", "10.10.10.10", "::1"}

IpOfText(t) ==
    CASE t = "1.2.3.4" -> IpV4(1, 2, 3, 4)
      [] t = "10.10.10.10" -> IpV4(10, 10, 10, 10)
      [] t = "::1" -> IpV6(<<0, 0, 0, 0, 0, 0, 0, 1>>)

Addrs == { IpOfText(t) : t \in AddrTexts }

\* Result<T, E>: ok with a value, or an error (val is then << >>).
Ok(v) == [ok |-> TRUE, val |-> v]
Err == [ok |-> FALSE, val |-> << >>]

\* IpAddr::from_str(x): the whole of x must be one address.
IpAddrFromStr(x) ==
    IF Len(x) = 1 /\ x[1] \in AddrTexts THEN Ok(IpOfText(x[1])) ELSE Err

----------------------------------------------------------------------------
(* maybe_quoted (lib.rs 183-208), maybe_bracketed (210-216), str::trim. *)

\* The `for c in i` loop of maybe_quoted over x from offset pos on, in escape
\* state est, having pushed out so far.
RECURSIVE UnquoteLoop(_, _, _, _)
UnquoteLoop(x, pos, est, out) ==
    IF pos >= Len(x) THEN out
    ELSE LET c == x[pos + 1]
         IN  IF est = "Normal"
             THEN IF c = Quote THEN out
                  ELSE IF c = Backslash THEN UnquoteLoop(x, pos + 1, "Escaped", out)
                  ELSE UnquoteLoop(x, pos + 1, "Normal", Append(out, c))
             ELSE UnquoteLoop(x, pos + 1, "Normal", Append(out, c))

\* a variant that does not stop at the closing quote
RECURSIVE UnquoteLoopNoBreak(_, _, _, _)
UnquoteLoopNoBreak(x, pos, est, out) ==
    IF pos >= Len(x) THEN out
    ELSE LET c == x[pos + 1]
         IN  IF est = "Normal" /\ c = Backslash
             THEN UnquoteLoopNoBreak(x, pos + 1, "Escaped", out)
             ELSE UnquoteLoopNoBreak(x, pos + 1, "Normal", Append(out, c))

maybe_quoted_no_break(x) ==
    IF Len(x) > 0 /\ x[1] = Quote THEN UnquoteLoopNoBreak(x, 1, "Normal", << >>) ELSE x

\* a variant that knows no escape: it stops at the first double quote and
\* keeps the backslashes
maybe_quoted_no_escape(x) ==
    IF Len(x) > 0 /\ x[1] = Quote
    THEN LET at == { j \in 2..Len(x) : x[j] = Quote }
         IN  IF at = {} THEN Tail(x)
             ELSE SubSeq(x, 2, (CHOOSE j \in at : \A k \in at : j <= k) - 1)
    ELSE x

maybe_quoted(x) ==
    IF Len(x) > 0 /\ x[1] = Quote THEN UnquoteLoop(x, 1, "Normal", << >>) ELSE x

\* &x[lo..hi] with the range check of str indexing: Err stands for the panic
\* of a range that is reversed or past the end of x
SliceChecked(x, lo, hi) ==
    IF 0 <= lo /\ lo <= hi /\ hi <= Len(x) THEN Ok(Slice(x, lo, hi)) ELSE Err

\* a variant that only looks at the first character
maybe_bracketed_first_only(x) ==
    IF Len(x) > 0 /\ x[1] = LBracket
    THEN SliceChecked(x, 1, Len(x) - 1)
    ELSE Ok(x)

\* maybe_bracketed as a call that returns or panics
maybe_bracketed_call(x) ==
    IF Len(x) > 0 /\ x[1] = LBracket /\ x[Len(x)] = RBracket
    THEN SliceChecked(x, 1, Len(x) - 1)
    ELSE Ok(x)

maybe_bracketed(x) == maybe_bracketed_call(x).val

IsWhitespace(c) == c = Space \/ c = Tab

RECURSIVE TrimStart(_)
TrimStart(x) ==
    IF Len(x) > 0 /\ IsWhitespace(x[1]) THEN TrimStart(Tail(x)) ELSE x

RECURSIVE TrimEnd(_)
TrimEnd(x) ==
    IF Len(x) > 0 /\ IsWhitespace(x[Len(x)])
    THEN TrimEnd(SubSeq(x, 1, Len(x) - 1))
    ELSE x

Trim(x) == TrimEnd(TrimStart(x))

----------------------------------------------------------------------------
(* CommaSeparated<IpAddr>::from_str (lib.rs 227-236). *)

\* the closure of the map: T::from_str(maybe_bracketed(&maybe_quoted(x.trim())))
EntryFromStr(x) == IpAddrFromStr(maybe_bracketed(maybe_quoted(Trim(x))))

\* collect::<Result<Vec<_>, _>>(): the values if every one is Ok, else Err
RECURSIVE CollectResult(_)
CollectResult(rs) ==
    IF rs = << >> THEN Ok(<< >>)
    ELSE IF ~ rs[1].ok THEN Err
    ELSE LET rest == CollectResult(Tail(rs))
         IN  IF rest.ok THEN Ok(<<rs[1].val>> \o rest.val) ELSE Err

\* a variant that drops the entries that do not parse
CommaSeparatedFromStrLenient(v) ==
    LET slices == CommaSeparatedIteratorNew(v)
        rs == [k \in 1..Len(slices) |->
                  EntryFromStr(Slice(v, slices[k].lo, slices[k].hi))]
        IsOk(r) == r.ok
        kept == SelectSeq(rs, IsOk)
    IN  Ok([k \in 1..Len(kept) |-> kept[k].val])

CommaSeparatedFromStr(v) ==
    LET slices == CommaSeparatedIteratorNew(v)
    IN  CollectResult([k \in 1..Len(slices) |->
                          EntryFromStr(Slice(v, slices[k].lo, slices[k].hi))])

----------------------------------------------------------------------------
(* rfc7239::parse, the structured grammar of the Forwarded header.  The    *)
(* crate is not part of the repository's sources; its behaviour is taken   *)
(* from section 4.1 of the specification: split on commas outside quotes,  *)
(* then on semicolons, into key=value pairs.  A key with its "=" is one    *)
(* symbol.                                                                 *)

Semicolon == ";"
ForKey == "for="
ByKey == "by="
ProtoKey == "proto="

\* x split at every sep that is outside a quoted substring
RECURSIVE SplitOutsideQuotes(_, _, _, _)
SplitOutsideQuotes(x, sep, cur, quoted) ==
    IF x = << >> THEN <<cur>>
    ELSE IF x[1] = sep /\ ~ quoted
         THEN <<cur>> \o SplitOutsideQuotes(Tail(x), sep, << >>, FALSE)
         ELSE SplitOutsideQuotes(Tail(x), sep, Append(cur, x[1]),
                                 IF x[1] = Quote THEN ~ quoted ELSE quoted)

\* a node identifier: an address, a quoted bracketed IPv6 address, "unknown",
\* or an obfuscated name ("_hidden"); anything else does not parse
NodeIdentifierParse(v) ==
    IF Len(v) = 1 /\ v[1] \in AddrTexts
    THEN Ok([name |-> [kind |-> "Ip", ip |-> Some(IpOfText(v[1]))]])
    ELSE IF Len(v) = 5 /\ v[1] = Quote /\ v[2] = LBracket /\ v[3] \in AddrTexts
            /\ v[4] = RBracket /\ v[5] = Quote
    THEN Ok([name |-> [kind |-> "Ip", ip |-> Some(IpOfText(v[3]))]])
    ELSE IF v = <<"unknown">> THEN Ok([name |-> [kind |-> "Unknown", ip |-> None]])
    ELSE IF v = <<"_hidden">> THEN Ok([name |-> [kind |-> "Name", ip |-> None]])
    ELSE Err

\* the pairs of one element folded into a Forwarded record, from pair k on
RECURSIVE ForwardedElementFold(_, _, _)
ForwardedElementFold(pairs, k, acc) ==
    IF k > Len(pairs) THEN Ok(acc)
    ELSE LET p == Trim(pairs[k])
         IN  IF Len(p) < 2 THEN Err
             ELSE IF p[1] \in {ForKey, ByKey}
             THEN LET n == NodeIdentifierParse(Tail(p))
                  IN  IF ~ n.ok THEN Err
                      ELSE IF p[1] = ForKey
                      THEN ForwardedElementFold(pairs, k + 1,
                               [acc EXCEPT !.forwarded_for = Some(n.val)])
                      ELSE ForwardedElementFold(pairs, k + 1,
                               [acc EXCEPT !.forwarded_by = Some(n.val)])
             ELSE IF p[1] = ProtoKey THEN ForwardedElementFold(pairs, k + 1, acc)
             ELSE Err

ForwardedElementParse(e) ==
    ForwardedElementFold(SplitOutsideQuotes(e, Semicolon, << >>, FALSE), 1,
                         [forwarded_for |-> None, forwarded_by |-> None])

\* parse(&header): one Result<Forwarded, _> per element, in header order
Rfc7239Parse(v) ==
    LET elements == SplitOutsideQuotes(v, Comma, << >>, FALSE)
    IN  [k \in 1..Len(elements) |-> ForwardedElementParse(Trim(elements[k]))]

----------------------------------------------------------------------------
(* get_forwarded_for (lib.rs 51-77).                                       *)
(* warp::header::<T>(name) rejects when the header is missing, when its    *)
(* value is not visible ASCII (HeaderValue::to_str), and when T::from_str  *)
(* fails; a.or(b) runs b when a rejects.  A filter's outcome is Ok(hops)   *)
(* or Err (a rejection).                                                   *)

HeaderToStr(v) ==
    IF \E k \in 1..Len(v) : v[k] = NonAscii THEN Err ELSE Ok(v)

\* warp::header("x-forwarded-for").map(|list: CommaSeparated<IpAddr>| list.into_inner())
XForwardedForFilter(h) ==
    IF h.xff = None THEN Err
    ELSE IF ~ HeaderToStr(h.xff[1]).ok THEN Err
    ELSE CommaSeparatedFromStr(h.xff[1])

\* the closure mapped over x-real-ip
XRealIpHops(ip) ==
    LET r == IpAddrFromStr(maybe_bracketed(maybe_quoted(ip)))
    IN  IF r.ok THEN <<r.val>> ELSE << >>

\* warp::header("x-real-ip").map(|ip: String| ...): String::from_str never fails
XRealIpFilter(h) ==
    IF h.xri = None THEN Err
    ELSE IF ~ HeaderToStr(h.xri[1]).ok THEN Err
    ELSE Ok(XRealIpHops(h.xri[1]))

\* a variant that matches on forwarded_by
ForwardedIpOfBy(forward) ==
    IF /\ forward.ok
       /\ forward.val.forwarded_by # None
       /\ forward.val.forwarded_by[1].name.kind = "Ip"
    THEN forward.val.forwarded_by[1].name.ip
    ELSE None

\* the closure of the filter_map: Some(ip) for Ok(Forwarded { forwarded_for:
\* Some(NodeIdentifier { name: NodeName::Ip(ip), .. }), .. }), None otherwise
ForwardedIpOf(forward) ==
    IF /\ forward.ok
       /\ forward.val.forwarded_for # None
       /\ forward.val.forwarded_for[1].name.kind = "Ip"
    THEN forward.val.forwarded_for[1].name.ip
    ELSE None

\* parse(&header).filter_map(...).collect::<Vec<_>>()
RECURSIVE ForwardedHops(_)
ForwardedHops(parsed) ==
    IF parsed = << >> THEN << >>
    ELSE ForwardedIpOf(parsed[1]) \o ForwardedHops(Tail(parsed))

\* warp::header("forwarded").map(|header: String| ...)
ForwardedFilter(h) ==
    IF h.fwd = None THEN Err
    ELSE IF ~ HeaderToStr(h.fwd[1]).ok THEN Err
    ELSE Ok(ForwardedHops(Rfc7239Parse(h.fwd[1])))

\* a variant without the last alternative
AnyFilterMissing == Err

\* warp::any().map(Vec::new)
AnyFilter == Ok(<< >>)

\* a.or(b).unify()
OrUnify(a, b) == IF a.ok THEN a ELSE b

get_forwarded_for(h) ==
    OrUnify(OrUnify(OrUnify(XForwardedForFilter(h), XRealIpFilter(h)),
                    ForwardedFilter(h)),
            AnyFilter)

----------------------------------------------------------------------------
(* real_ip (lib.rs 30-48). *)

\* IpAddr::to_canonical: an IPv4-mapped IPv6 address as its IPv4 address
ToCanonical(ip) ==
    IF ip.family = "V6" /\ SubSeq(ip.parts, 1, 6) = <<0, 0, 0, 0, 0, 65535>>
    THEN IpV4(ip.parts[7] \div 256, ip.parts[7] % 256,
              ip.parts[8] \div 256, ip.parts[8] % 256)
    ELSE ip

\* a variant that compares the canonical forms of the addresses
ContainsCanonical(vec, hop) == ToCanonical(hop) \in { ToCanonical(e) : e \in vec }

\* trusted_proxies.contains(&hop)
Contains(vec, hop) == hop \in vec

\* `for hop in hops.rev()`: the first hop, from index i down, that is not
\* trusted; None when the loop ends without returning
RECURSIVE RevLoop(_, _, _)
RevLoop(trusted, hops, i) ==
    IF i = 0 THEN None
    ELSE IF ~ Contains(trusted, hops[i]) THEN Some(hops[i])
    ELSE RevLoop(trusted, hops, i - 1)

\* a variant that falls back to the last declared hop
AllTrustedLast(ff, ip) == IF ff # << >> THEN ff[Len(ff)] ELSE ip

\* forwarded_for.first().copied().unwrap_or_else(|| addr.ip())
AllTrusted(ff, ip) == IF ff # << >> THEN ff[1] ELSE ip

\* a variant that chains the peer in front of the declared hops
HopsPeerFirst(ff, ip) == <<ip>> \o ff

\* forwarded_for.iter().copied().chain(once(addr.ip()))
Hops(ff, ip) == ff \o <<ip>>

\* a variant whose loop lacks .rev(): the first untrusted hop in header order
RECURSIVE FwdLoop(_, _, _)
FwdLoop(trusted, hops, i) ==
    IF i > Len(hops) THEN None
    ELSE IF ~ Contains(trusted, hops[i]) THEN Some(hops[i])
    ELSE FwdLoop(trusted, hops, i + 1)

RealIpOfForward(trusted, ip, ff) ==
    LET found == FwdLoop(trusted, Hops(ff, ip), 1)
    IN  IF found # None THEN found[1] ELSE AllTrusted(ff, ip)

\* a variant that believes the first declared hop as soon as the peer is trusted
RealIpOfNaive(trusted, ip, ff) ==
    IF Contains(trusted, ip) THEN AllTrusted(ff, ip) ELSE ip

\* a variant whose walk looks at the peer and the nearest declared hop only
RealIpOfTwoNearest(trusted, ip, ff) ==
    LET hops == IF ff = << >> THEN <<ip>> ELSE <<ff[Len(ff)], ip>>
        found == RevLoop(trusted, hops, Len(hops))
    IN  IF found # None THEN found[1] ELSE AllTrusted(ff, ip)

\* the closure given to addr.map
RealIpOf(trusted, ip, ff) ==
    LET hops == Hops(ff, ip)
        found == RevLoop(trusted, hops, Len(hops))
    IN  IF found # None THEN found[1] ELSE AllTrusted(ff, ip)

\* the closure given to remote().and(get_forwarded_for()).map
RealIpMap(trusted, a, ff) ==
    IF a = None THEN None ELSE Some(RealIpOf(trusted, a[1], ff))

----------------------------------------------------------------------------
(* One request through the filter: the alternative of get_forwarded_for    *)
(* that serves it, then the closure of real_ip.                            *)

Pending == [kind |-> "pending", ip |-> None]
Reply(ip) == [kind |-> "reply", ip |-> ip]
Rejected == [kind |-> "rejected", ip |-> None]

\* no call of maybe_quoted / maybe_bracketed on its own
NotCalled == [by |-> "", ok |-> TRUE, val |-> << >>]

NoCall == arg = << >> /\ ret = NotCalled

NoIterator ==
    /\ target = << >>
    /\ char_indices = 0
    /\ state = "Default"
    /\ s = 0
    /\ items = << >>
    /\ nones = 0

XForwardedFor ==
    /\ pc = "request"
    /\ XForwardedForFilter(headers).ok
    /\ forwarded_for' = XForwardedForFilter(headers).val
    /\ pc' = "extracted"
    /\ UNCHANGED <<trusted_proxies, addr, headers, result>>
    /\ UNCHANGED iterVars
    /\ UNCHANGED tasks
    /\ UNCHANGED callVars

XRealIp ==
    /\ pc = "request"
    /\ ~ XForwardedForFilter(headers).ok
    /\ XRealIpFilter(headers).ok
    /\ forwarded_for' = XRealIpFilter(headers).val
    /\ pc' = "extracted"
    /\ UNCHANGED <<trusted_proxies, addr, headers, result>>
    /\ UNCHANGED iterVars
    /\ UNCHANGED tasks
    /\ UNCHANGED callVars

Forwarded ==
    /\ pc = "request"
    /\ ~ XForwardedForFilter(headers).ok
    /\ ~ XRealIpFilter(headers).ok
    /\ ForwardedFilter(headers).ok
    /\ forwarded_for' = ForwardedFilter(headers).val
    /\ pc' = "extracted"
    /\ UNCHANGED <<trusted_proxies, addr, headers, result>>
    /\ UNCHANGED iterVars
    /\ UNCHANGED tasks
    /\ UNCHANGED callVars

\* the last alternative; were it to reject, so would the whole filter
AnyAlternative ==
    /\ pc = "request"
    /\ ~ XForwardedForFilter(headers).ok
    /\ ~ XRealIpFilter(headers).ok
    /\ ~ ForwardedFilter(headers).ok
    /\ IF AnyFilter.ok
       THEN /\ forwarded_for' = AnyFilter.val
            /\ pc' = "extracted"
            /\ UNCHANGED result
       ELSE /\ result' = Rejected
            /\ pc' = "done"
            /\ UNCHANGED forwarded_for
    /\ UNCHANGED <<trusted_proxies, addr, headers>>
    /\ UNCHANGED iterVars
    /\ UNCHANGED tasks
    /\ UNCHANGED callVars

RealIp ==
    /\ pc = "extracted"
    /\ result' = Reply(RealIpMap(trusted_proxies, addr, forwarded_for))
    /\ pc' = "done"
    /\ UNCHANGED <<trusted_proxies, addr, headers, forwarded_for>>
    /\ UNCHANGED iterVars
    /\ UNCHANGED tasks
    /\ UNCHANGED callVars

Next == XForwardedFor \/ XRealIp \/ Forwarded \/ AnyAlternative \/ RealIp

\* s joined with commas
RECURSIVE JoinComma(_)
JoinComma(es) ==
    IF es = << >> THEN << >>
    ELSE IF Len(es) = 1 THEN es[1]
    ELSE es[1] \o <<Comma>> \o JoinComma(Tail(es))

----------------------------------------------------------------------------
(* Requests of the resolver specification: every trusted list over the     *)
(* model's addresses, every peer, and an x-forwarded-for list of up to     *)
(* MaxHops addresses; x-real-ip and forwarded carry one address or are     *)
(* missing.                                                                *)

HopEntries == { <<t>> : t \in AddrTexts }

Init ==
    /\ trusted_proxies \in SUBSET Addrs
    /\ addr \in {None} \cup { Some(a) : a \in Addrs }
    /\ \E xff \in {None} \cup { Some(JoinComma(es)) : es \in SeqsUpTo(HopEntries, MaxHops) },
          xri \in {None} \cup { Some(e) : e \in HopEntries },
          fwd \in {None} \cup { Some(<<ForKey>> \o e) : e \in HopEntries } :
          headers = [xff |-> xff, xri |-> xri, fwd |-> fwd]
    /\ forwarded_for = << >>
    /\ result = Pending
    /\ pc = "request"
    /\ NoIterator
    /\ tasks = << >>
    /\ NoCall

Spec == Init /\ [][Next]_vars

----------------------------------------------------------------------------
(* Properties of the resolver (specification Spec). *)

\* the claim's list L = H ++ [P] of a request with a peer
FullList == forwarded_for \o <<addr[1]>>

UntrustedAt == { i \in 1..Len(FullList) : FullList[i] \notin trusted_proxies }

MaxOf(S) == CHOOSE i \in S : \A j \in S : j <= i

\* C1: for every trusted list, every peer P that is not in it and every hop
\* sequence extracted from the headers, the request resolves to P.
C1_UntrustedPeerWins ==
    (pc = "done" /\ addr # None /\ addr[1] \notin trusted_proxies)
        => result = Reply(Some(addr[1]))

\* an untrusted peer was kept although the header declared another, also
\* untrusted, address as the nearest hop
C1_Witness ==
    /\ pc = "done"
    /\ addr # None
    /\ addr[1] \notin trusted_proxies
    /\ Len(forwarded_for) >= 2
    /\ forwarded_for[Len(forwarded_for)] # addr[1]
    /\ forwarded_for[Len(forwarded_for)] \notin trusted_proxies
    /\ result = Reply(addr)

\* C2: with a peer, the request resolves to the element of L = H ++ [P] at
\* the greatest index that is not in the trusted list, whenever there is one.
C2_LastUntrustedOfList ==
    (pc = "done" /\ addr # None /\ UntrustedAt # {})
        => result = Reply(Some(FullList[MaxOf(UntrustedAt)]))

\* peer trusted, nearest declared hop untrusted and returned, although an
\* untrusted and different hop was declared before it
C2_Witness ==
    /\ pc = "done"
    /\ addr # None
    /\ addr[1] \in trusted_proxies
    /\ Len(forwarded_for) >= 2
    /\ forwarded_for[Len(forwarded_for)] \notin trusted_proxies
    /\ forwarded_for[1] \notin trusted_proxies
    /\ forwarded_for[1] # forwarded_for[Len(forwarded_for)]
    /\ result = Reply(Some(forwarded_for[Len(forwarded_for)]))

\* C3: when the peer and every declared hop are trusted, the request resolves
\* to the first declared hop, or to the peer when no hop was declared.
C3_AllTrustedFirstHop ==
    (pc = "done" /\ addr # None /\ UntrustedAt = {})
        => result = Reply(Some(IF forwarded_for # << >>
                               THEN forwarded_for[1] ELSE addr[1]))

\* everything trusted, several hops declared, the first one differing from
\* the last one and from the peer
C3_Witness ==
    /\ pc = "done"
    /\ addr # None
    /\ UntrustedAt = {}
    /\ Len(forwarded_for) >= 2
    /\ forwarded_for[1] # forwarded_for[Len(forwarded_for)]
    /\ forwarded_for[1] # addr[1]
    /\ result = Reply(Some(forwarded_for[1]))

\* C5: dropping a prefix F of the declared hops F ++ H does not change the
\* result as long as some element of H ++ [P] is untrusted: the request
\* resolves to what the request with hop sequence H resolves to.
C5_PrefixCannotChangeResult ==
    (pc = "done" /\ addr # None)
        => \A k \in 0..Len(forwarded_for) :
              LET H == SubSeq(forwarded_for, k + 1, Len(forwarded_for))
                  L == H \o <<addr[1]>>
              IN  (\E i \in 1..Len(L) : L[i] \notin trusted_proxies)
                      => result = Reply(RealIpMap(trusted_proxies, addr, H))

\* a trusted peer behind an untrusted hop, with two untrusted fake hops
\* prepended that the result does not follow
C5_Witness ==
    /\ pc = "done"
    /\ addr # None
    /\ addr[1] \in trusted_proxies
    /\ Len(forwarded_for) = 3
    /\ forwarded_for[3] \notin trusted_proxies
    /\ forwarded_for[1] \notin trusted_proxies
    /\ forwarded_for[1] # forwarded_for[3]
    /\ forwarded_for[2] # forwarded_for[3]
    /\ result = Reply(Some(forwarded_for[3]))

\* the elements of L = H ++ [P] after the first declared hop
LaterAt == 2..Len(FullList)

\* C11 as claimed: with two or more declared addresses, a result equal to the
\* first declared address means that every other declared address and the
\* peer are trusted.
C11_FirstOnlyIfRestTrusted ==
    (/\ pc = "done"
     /\ addr # None
     /\ Len(forwarded_for) >= 2
     /\ result = Reply(Some(forwarded_for[1])))
        => \A i \in LaterAt : FullList[i] \in trusted_proxies

\* C11 as amended: with two or more declared addresses, a result equal to the
\* first declared address means that every other declared hop and the peer
\* are trusted, or that the result is the nearest untrusted later hop (or the
\* peer), whose address is the one that was also declared first.
C11_FirstOnlyIfRestTrustedOrSame ==
    (/\ pc = "done"
     /\ addr # None
     /\ Len(forwarded_for) >= 2
     /\ result = Reply(Some(forwarded_for[1])))
        => \/ \A i \in LaterAt : FullList[i] \in trusted_proxies
           \/ /\ UntrustedAt # {}
              /\ MaxOf(UntrustedAt) > 1
              /\ FullList[MaxOf(UntrustedAt)] = forwarded_for[1]

\* three declared hops resolved to the first one, which no later hop nor the
\* peer repeats: the two later hops, different proxies, and the peer are
\* trusted
C11_Witness ==
    /\ pc = "done"
    /\ addr # None
    /\ Len(forwarded_for) = 3
    /\ result = Reply(Some(forwarded_for[1]))
    /\ \A i \in LaterAt : FullList[i] # forwarded_for[1]
    /\ forwarded_for[2] # forwarded_for[3]
    /\ \A i \in LaterAt : FullList[i] \in trusted_proxies

----------------------------------------------------------------------------
(* Requests of the trust specification: the trusted list and the peer range *)
(* over the model's addresses and the IPv4-mapped IPv6 form of 1.2.3.4     *)
(* (::ffff:1.2.3.4, what a dual-stack socket reports for an IPv4 client);  *)
(* x-forwarded-for declares up to MaxTrustHops addresses.                  *)

\* ::ffff:1.2.3.4, segments 0:0:0:0:0:ffff:0102:0304
MappedV6 == IpV6(<<0, 0, 0, 0, 0, 65535, 258, 772>>)

TrustAddrs == Addrs \cup {MappedV6}

InitTrust ==
    /\ trusted_proxies \in SUBSET TrustAddrs
    /\ addr \in {None} \cup { Some(a) : a \in TrustAddrs }
    /\ \E xff \in {None} \cup { Some(JoinComma(es)) :
                                   es \in SeqsUpTo(HopEntries, MaxTrustHops) \ {<< >>} },
          xri \in {None} \cup { Some(e) : e \in HopEntries },
          fwd \in {None} \cup { Some(<<ForKey>> \o e) : e \in HopEntries } :
          headers = [xff |-> xff, xri |-> xri, fwd |-> fwd]
    /\ forwarded_for = << >>
    /\ result = Pending
    /\ pc = "request"
    /\ NoIterator
    /\ tasks = << >>
    /\ NoCall

SpecTrust == InitTrust /\ [][Next]_vars

----------------------------------------------------------------------------
(* Properties of trust membership (specification SpecTrust). *)

\* a configured address e taken as a host-only network: it includes h exactly
\* when h is of the same family and has the same octets / segments
HostOnlyIncludes(e, h) == e.family = h.family /\ e.parts = h.parts

\* at least one configured entry includes h
Included(h) == \E e \in trusted_proxies : HostOnlyIncludes(e, h)

NotIncludedAt == { i \in 1..Len(FullList) : ~ Included(FullList[i]) }

\* C12: the hops the resolution treats as trusted are exactly those that some
\* configured entry, as a host-only network, includes: the request resolves
\* to the nearest element of H ++ [P] that no entry includes (to the first
\* declared hop or the peer when every element is included), so an entry of
\* the other family, the IPv4-mapped form included, never makes a hop trusted.
C12_TrustIsExactAndFamilyStrict ==
    (pc = "done" /\ addr # None) =>
        /\ NotIncludedAt # {} =>
              result = Reply(Some(FullList[MaxOf(NotIncludedAt)]))
        /\ NotIncludedAt = {} =>
              result = Reply(Some(FullList[1]))
        /\ (\A e \in trusted_proxies : e.family # addr[1].family)
              => result = Reply(addr)

\* the peer is ::ffff:1.2.3.4 and the only trusted entry is 1.2.3.4: the peer
\* is not trusted and the declared hop is not believed
C12_Witness ==
    /\ pc = "done"
    /\ addr = Some(MappedV6)
    /\ trusted_proxies = {IpV4(1, 2, 3, 4)}
    /\ forwarded_for = <<IpOfText("::1")>>
    /\ result = Reply(Some(MappedV6))

----------------------------------------------------------------------------
(* Requests of the header specification: header values built from entries  *)
(* in every form the extraction tells apart, well formed and malformed, at *)
(* most MaxHeaderEntries entries over the three headers together; the peer *)
(* is 1.2.3.4 or missing, and trusted or not.                              *)

WrapTexts == {"1.2.3.4", "::1"}

XffEntryForms ==
    { <<t>> : t \in WrapTexts }
    \cup { <<Quote, t, Quote>> : t \in WrapTexts }
    \cup { <<LBracket, t, RBracket>> : t \in WrapTexts }
    \cup { <<Space, "10.10.10.10">>, <<"x">>, << >>, <<NonAscii>>,
           <<Quote, "10.10.10.10", Quote, NonAscii>> }

FwdElementForms ==
    { <<ForKey, "1.2.3.4">>,
      <<ForKey, Quote, LBracket, "::1", RBracket, Quote>>,
      <<ByKey, "10.10.10.10">>,
      <<ForKey, "10.10.10.10", Semicolon, ByKey, "1.2.3.4">>,
      <<ForKey, "unknown">>,
      <<ForKey, "_hidden">>,
      <<"x">>,
      <<ForKey, NonAscii>> }

SeqsOfLen(S, n) == { w \in SeqsUpTo(S, n) : Len(w) = n }

InitHeaders ==
    /\ trusted_proxies \in {{}, {IpV4(1, 2, 3, 4)}}
    /\ addr \in {None, Some(IpV4(1, 2, 3, 4))}
    /\ \E n1 \in 0..MaxHeaderEntries, n2 \in 0..1, n3 \in 0..MaxHeaderEntries :
          /\ n1 + n2 + n3 <= MaxHeaderEntries
          /\ \E xff \in (IF n1 = 0 THEN {None} ELSE {})
                        \cup { Some(JoinComma(es)) : es \in SeqsOfLen(XffEntryForms, n1) },
                xri \in IF n2 = 0 THEN {None}
                        ELSE { Some(e) : e \in XffEntryForms },
                fwd \in (IF n3 = 0 THEN {None} ELSE {})
                        \cup { Some(JoinComma(es)) : es \in SeqsOfLen(FwdElementForms, n3) } :
                headers = [xff |-> xff, xri |-> xri, fwd |-> fwd]
    /\ forwarded_for = << >>
    /\ result = Pending
    /\ pc = "request"
    /\ NoIterator
    /\ tasks = << >>
    /\ NoCall

SpecHeaders == InitHeaders /\ [][Next]_vars

----------------------------------------------------------------------------
(* Properties of the header extraction (specification SpecHeaders). *)

\* what the request would yield were only the given headers sent
HopsOf(h) == get_forwarded_for(h).val

\* the entries of an x-forwarded-for value: the texts of the slices the
\* iterator yields, each with what it parses to
EntriesOf(v) ==
    LET slices == CommaSeparatedIteratorNew(v)
    IN  [k \in 1..Len(slices) |->
            EntryFromStr(Slice(v, slices[k].lo, slices[k].hi))]

\* the values of the entries of rs at the indices in idx, in index order
InOrder(rs, idx) ==
    [j \in 1..Cardinality(idx) |->
        rs[CHOOSE k \in idx : Cardinality({m \in idx : m <= k}) = j]]

\* C4: the result is absent exactly when the peer is absent; whatever the
\* headers hold, the filter replies and never rejects.
C4_AbsentIffNoPeer ==
    pc = "done" => /\ result.kind = "reply"
                   /\ (result.ip = None) <=> (addr = None)

\* a request with a peer whose x-forwarded-for and x-real-ip are both
\* present and malformed, resolved to the peer
C4_Witness ==
    /\ pc = "done"
    /\ addr # None
    /\ headers.xff # None
    /\ ~ XForwardedForFilter(headers).ok
    /\ headers.xri # None
    /\ forwarded_for = << >>
    /\ result = Reply(addr)

\* C6: first present wins.  With x-forwarded-for present the hops and the
\* result are those of the same request without x-real-ip and forwarded;
\* with x-forwarded-for missing and x-real-ip present they are those of the
\* same request without forwarded.
C6_FirstPresentWins ==
    pc = "done" =>
        /\ headers.xff # None =>
              LET alone == HopsOf([headers EXCEPT !.xri = None, !.fwd = None])
              IN  /\ forwarded_for = alone
                  /\ result = Reply(RealIpMap(trusted_proxies, addr, alone))
        /\ (headers.xff = None /\ headers.xri # None) =>
              LET alone == HopsOf([headers EXCEPT !.fwd = None])
              IN  /\ forwarded_for = alone
                  /\ result = Reply(RealIpMap(trusted_proxies, addr, alone))

\* C7 as claimed (lenient drop): with x-forwarded-for present (its value
\* visible ASCII) the hop sequence is exactly the entries that parse, in
\* header order.
C7_LenientDrop ==
    (pc = "done" /\ headers.xff # None /\ HeaderToStr(headers.xff[1]).ok) =>
        LET rs == EntriesOf(headers.xff[1])
            good == InOrder(rs, { k \in 1..Len(rs) : rs[k].ok })
        IN  forwarded_for = [k \in 1..Len(good) |-> good[k].val]

\* C7 as amended (strict): when the value is visible ASCII and every entry
\* parses, the hop sequence is all the entries in header order; otherwise
\* x-forwarded-for yields nothing and the request is handled as if the
\* header were missing.
C7_StrictOrAsIfMissing ==
    (pc = "done" /\ headers.xff # None) =>
        LET rs == EntriesOf(headers.xff[1])
        IN  IF HeaderToStr(headers.xff[1]).ok /\ \A k \in 1..Len(rs) : rs[k].ok
            THEN forwarded_for = [k \in 1..Len(rs) |-> rs[k].val]
            ELSE forwarded_for = HopsOf([headers EXCEPT !.xff = None])

\* an x-forwarded-for value, visible ASCII, whose first entry parses and
\* whose second does not: no hop was taken from it
C7_Witness ==
    /\ pc = "done"
    /\ headers.xff # None
    /\ HeaderToStr(headers.xff[1]).ok
    /\ Len(EntriesOf(headers.xff[1])) = 2
    /\ EntriesOf(headers.xff[1])[1].ok
    /\ ~ EntriesOf(headers.xff[1])[2].ok
    /\ headers.xri = None
    /\ headers.fwd = None
    /\ forwarded_for = << >>

\* the addresses of the elements of a forwarded value that parse and whose
\* `for` is an IP address, in declaration order
ForIpsOf(v) ==
    LET parsed == Rfc7239Parse(v)
        good == InOrder(parsed, { k \in 1..Len(parsed) :
                                     /\ parsed[k].ok
                                     /\ parsed[k].val.forwarded_for # None
                                     /\ parsed[k].val.forwarded_for[1].name.kind = "Ip" })
    IN  [k \in 1..Len(good) |-> good[k].val.forwarded_for[1].name.ip[1]]

OnlyForwarded == headers.xff = None /\ headers.xri = None /\ headers.fwd # None

Wrapped(t) == { <<Quote, t, Quote>>, <<LBracket, t, RBracket>> }

\* v with the three symbols from offset lo on replaced by the one symbol t
Unwrapped(v, lo, t) == SubSeq(v, 1, lo) \o <<t>> \o SubSeq(v, lo + 4, Len(v))

\* C9: an x-forwarded-for entry that is an address in quotes or in brackets
\* yields what the same value with the bare address in its place yields, and
\* an x-real-ip value that is a wrapped address yields that address.
C9_WrappingIsTransparent ==
    pc = "done" =>
        /\ headers.xff # None =>
              LET v == headers.xff[1]
              IN  \A t \in AddrTexts : \A lo \in 0..Len(v) :
                     (/\ lo + 3 <= Len(v)
                      /\ Slice(v, lo, lo + 3) \in Wrapped(t)
                      /\ (lo = 0 \/ v[lo] = Comma)
                      /\ (lo + 3 = Len(v) \/ v[lo + 4] = Comma))
                         => forwarded_for =
                               HopsOf([headers EXCEPT !.xff = Some(Unwrapped(v, lo, t))])
        /\ (headers.xff = None /\ headers.xri # None) =>
              \A t \in AddrTexts :
                 headers.xri[1] \in Wrapped(t) => forwarded_for = <<IpOfText(t)>>

\* a quoted IPv4 entry and a bracketed IPv6 entry, both taken as hops
C9_Witness ==
    /\ pc = "done"
    /\ headers.xff = Some(<<Quote, "1.2.3.4", Quote, Comma, LBracket, "::1", RBracket>>)
    /\ forwarded_for = <<IpOfText("1.2.3.4"), IpOfText("::1")>>

\* the address an x-real-ip value holds once its quotes and then its brackets
\* are taken off, as a hop sequence: one element, or none when it is no address
UnwrappedAddress(v) ==
    LET r == IpAddrFromStr(maybe_bracketed(maybe_quoted(v)))
    IN  IF r.ok THEN <<r.val>> ELSE << >>

\* C14: with x-forwarded-for missing and x-real-ip present, the hop sequence
\* is the one address of the x-real-ip value after quote and then bracket
\* unwrapping (stated for the values that are visible ASCII), and is empty
\* whenever the value is no address; the forwarded header has no part in it.
C14_XRealIpAlone ==
    (pc = "done" /\ headers.xff = None /\ headers.xri # None) =>
        /\ HeaderToStr(headers.xri[1]).ok
              => forwarded_for = UnwrappedAddress(headers.xri[1])
        /\ UnwrappedAddress(headers.xri[1]) = << >>
              => forwarded_for = << >>

----------------------------------------------------------------------------
(* The stepped iterator: one action per call of next(). *)

\* the characters the scanner tells apart, and one it does not ("a")
IterAlphabet == {Quote, Backslash, Comma, Space, Tab, "a"}

NoRequest ==
    /\ trusted_proxies = {}
    /\ addr = None
    /\ headers = [xff |-> None, xri |-> None, fwd |-> None]
    /\ forwarded_for = << >>
    /\ result = Pending
    /\ pc = "iterating"

InitIter ==
    /\ NoRequest
    /\ target \in SeqsUpTo(IterAlphabet, MaxTarget)
    /\ char_indices = 0
    /\ state = "Default"
    /\ s = 0
    /\ items = << >>
    /\ nones = 0
    /\ tasks = << >>
    /\ NoCall

NextSome ==
    /\ pc = "iterating"
    /\ LET r == IterNext(target, char_indices, state, s)
       IN  /\ r.item # None
           /\ items' = Append(items, r.item[1])
           /\ char_indices' = r.pos
           /\ state' = r.state
           /\ s' = r.s
    /\ UNCHANGED <<target, nones>>
    /\ UNCHANGED reqVars
    /\ UNCHANGED tasks
    /\ UNCHANGED callVars

NextNone ==
    /\ pc = "iterating"
    /\ nones < MaxNoneCalls
    /\ LET r == IterNext(target, char_indices, state, s)
       IN  /\ r.item = None
           /\ char_indices' = r.pos
           /\ state' = r.state
           /\ s' = r.s
    /\ nones' = nones + 1
    /\ UNCHANGED <<target, items>>
    /\ UNCHANGED reqVars
    /\ UNCHANGED tasks
    /\ UNCHANGED callVars

StepIter == NextSome \/ NextNone

SpecIter == InitIter /\ [][StepIter]_vars

\* the consumer (collect) calls next() until it returns None
SpecIterLive == SpecIter /\ WF_vars(StepIter)

----------------------------------------------------------------------------
(* Properties of the iterator (specification SpecIter). *)

\* the symbol at offset j of the target follows an odd run of backslashes
\* that begins after offset lo: it is escaped within a quoted string opened
\* at lo
EscapedIn(lo, j) ==
    LET run == { r \in 0..(j - lo - 1) :
                    \A m \in 1..r : target[j - m + 1] = Backslash }
    IN  MaxOf(run) % 2 = 1

\* the offsets of the unescaped double quotes after the one at offset lo
ClosersOf(lo) ==
    { j \in (lo + 1)..(Len(target) - 1) : target[j + 1] = Quote /\ ~ EscapedIn(lo, j) }

MinOf(S) == CHOOSE i \in S : \A j \in S : i <= j

\* C10: a slice that opens with a double quote runs to the matching unescaped
\* closing quote, commas in between included (to the end of the target when
\* no quote closes it), and no other slice lies inside it.
C10_QuotedCommaIsNoDelimiter ==
    \A k \in 1..Len(items) :
        (items[k].lo < items[k].hi /\ target[items[k].lo + 1] = Quote) =>
            /\ items[k].hi = IF ClosersOf(items[k].lo) # {}
                             THEN MinOf(ClosersOf(items[k].lo)) + 1
                             ELSE Len(target)
            /\ \A m \in 1..Len(items) :
                  m # k => \/ items[m].hi <= items[k].lo
                           \/ items[m].lo >= items[k].hi

\* the quoted string "a," with its comma came out as a single slice
C10_Witness ==
    /\ target = <<Quote, "a", Comma, Quote>>
    /\ nones = 1
    /\ items = <<[lo |-> 0, hi |-> 4]>>

\* the texts of the slices yielded so far
ItemTexts == [k \in 1..Len(items) |-> Slice(target, items[k].lo, items[k].hi)]

\* x is the beginning of y
IsPrefix(x, y) == Len(x) <= Len(y) /\ x = SubSeq(y, 1, Len(x))

\* x cut at every comma: the segments between the commas, in order
RECURSIVE SplitAtCommas(_)
SplitAtCommas(x) ==
    IF \A k \in 1..Len(x) : x[k] # Comma THEN <<x>>
    ELSE LET k == MinOf({ j \in 1..Len(x) : x[j] = Comma })
         IN  <<SubSeq(x, 1, k - 1)>> \o SplitAtCommas(SubSeq(x, k + 1, Len(x)))

\* x without its leading spaces and tabs
RECURSIVE SkipBlanks(_)
SkipBlanks(x) ==
    IF x # << >> /\ x[1] \in {Space, Tab} THEN SkipBlanks(Tail(x)) ELSE x

\* the reference for an input without double quote: every segment without
\* its leading blanks, the final one only if something remains of it
ReferenceNoQuote(x) ==
    LET segs == SplitAtCommas(x)
        n == Len(segs)
        lead == [k \in 1..n |-> SkipBlanks(segs[k])]
    IN  IF lead[n] = << >> THEN SubSeq(lead, 1, n - 1) ELSE lead

NoQuoteIn(x) == \A k \in 1..Len(x) : x[k] # Quote

\* C15: on a target without double quote the slices yielded so far are the
\* beginning of the reference sequence, and all of it once next() has
\* returned None.
C15_NoQuoteReference ==
    NoQuoteIn(target) =>
        /\ IsPrefix(ItemTexts, ReferenceNoQuote(target))
        /\ nones >= 1 => ItemTexts = ReferenceNoQuote(target)

\* ", a " came out as the empty slice at the comma and the token "a " with
\* its trailing space
C15_Witness ==
    /\ target = <<Comma, Space, "a", Space>>
    /\ nones = 1
    /\ items = <<[lo |-> 0, hi |-> 0], [lo |-> 2, hi |-> 4]>>

\* item k is a quoted entry that a quote closes
ClosedQuoted(k) ==
    /\ items[k].lo < items[k].hi
    /\ target[items[k].lo + 1] = Quote
    /\ ClosersOf(items[k].lo) # {}

\* the offset of the first comma at or after offset j, the length of the
\* target when there is none
NextCommaFrom(j) ==
    LET at == { c \in j..(Len(target) - 1) : target[c + 1] = Comma }
    IN  IF at # {} THEN MinOf(at) ELSE Len(target)

\* C16: the slice of a quoted entry that a quote closes runs from the opening
\* quote to the matching unescaped closing quote, both included, and no
\* slice begins at or covers an offset between that closing quote and the
\* next comma, the comma's own offset included: what follows the closing
\* quote is discarded and the comma yields no slice.
C16_QuotedSliceAndPostAmble ==
    \A k \in 1..Len(items) :
        ClosedQuoted(k) =>
            /\ target[items[k].hi] = Quote
            /\ items[k].hi = MinOf(ClosersOf(items[k].lo)) + 1
            /\ \A m \in 1..Len(items) : \A j \in items[k].hi..NextCommaFrom(items[k].hi) :
                  m # k => /\ items[m].lo # j
                           /\ ~ (items[m].lo <= j /\ j < items[m].hi)

\* of ""a, only the slice "" came out: the a after the closing quote was
\* discarded and the comma yielded nothing
C16_Witness ==
    /\ target = <<Quote, Quote, "a", Comma>>
    /\ nones = 1
    /\ items = <<[lo |-> 0, hi |-> 2]>>

\* next() has just yielded a slice that begins with a double quote, and has
\* not been called since
JustYieldedQuoted ==
    /\ nones = 0
    /\ items # << >>
    /\ items[Len(items)].lo < items[Len(items)].hi
    /\ target[items[Len(items)].lo + 1] = Quote

\* that slice was ended by a closing quote at offset j, not by the end of
\* the input
ClosedAt(j) == state = "PostAmbleForQuoted" /\ items[Len(items)].hi = j + 1

\* C17: within a quoted entry a double quote that follows an unescaped
\* backslash (an odd run of backslashes) never closes the entry, a double
\* quote that follows no backslash or an escaped one (an even run, two
\* backslashes) does, and the character after an unescaped backslash lies
\* inside the slice and does not end it.
C17_QuotedPairIsContent ==
    JustYieldedQuoted =>
        LET lo == items[Len(items)].lo
            hi == items[Len(items)].hi
        IN  \A j \in (lo + 1)..(hi - 1) :
               /\ (target[j + 1] = Quote /\ EscapedIn(lo, j)) => ~ ClosedAt(j)
               /\ (target[j + 1] = Quote /\ ~ EscapedIn(lo, j)) => ClosedAt(j)
               /\ (target[j + 1] = Backslash /\ ~ EscapedIn(lo, j) /\ j + 1 < Len(target))
                     => j + 1 < hi /\ ~ ClosedAt(j + 1)

\* "\"" came out whole: the quote after the backslash did not close the
\* entry, the one after it did
C17_Witness ==
    /\ target = <<Quote, Backslash, Quote, Quote>>
    /\ items = <<[lo |-> 0, hi |-> 4]>>
    /\ state = "PostAmbleForQuoted"
    /\ nones = 0

\* the state and start offset the scanner is in at the end of the target
EndOfInput == ScanToEnd(target, 0, "Default", 0)

\* what holds of the slices at every moment: there are never more of them
\* than characters, and once next() has returned None the next call returns
\* None too; then, if the input ended in the Token, Quoted or QuotedPair
\* state, the last slice is the token in progress, from its start to the end
\* of the input, and no other slice reaches into it; if it ended in the
\* Default or PostAmbleForQuoted state, the only slice that can reach the end
\* of the input is a quoted string closed by the last character.
SlicesAtEnd ==
    /\ Len(items) <= Len(target)
    /\ nones >= 1 =>
          /\ IterNext(target, char_indices, state, s).item = None
          /\ IF EndOfInput.state \in {"Token", "Quoted", "QuotedPair"}
             THEN /\ items # << >>
                  /\ items[Len(items)] = [lo |-> EndOfInput.s, hi |-> Len(target)]
                  /\ EndOfInput.s < Len(target)
                  /\ \A k \in 1..(Len(items) - 1) : items[k].hi <= EndOfInput.s
             ELSE \A k \in 1..Len(items) :
                     items[k].hi = Len(target) =>
                        /\ EndOfInput.state = "PostAmbleForQuoted"
                        /\ items[k].lo + 2 <= items[k].hi
                        /\ target[items[k].lo + 1] = Quote
                        /\ target[items[k].hi] = Quote

\* C18: the iteration ends: next() returns None after finitely many calls;
\* the token in progress at the end of the input is yielded exactly once,
\* nothing is yielded at the end otherwise, every call after the first None
\* returns None, and there are never more slices than characters.
C18_TerminatesAndFlushesOnce ==
    /\ []SlicesAtEnd
    /\ <>(nones >= 1)
    /\ [][nones >= 1 => items' = items]_vars

\* a,"b was read to its end: the token a, then the unclosed quoted string
\* "b flushed at the end, and two more calls that returned None
C18_Witness ==
    /\ target = <<"a", Comma, Quote, "a">>
    /\ items = <<[lo |-> 0, hi |-> 1], [lo |-> 2, hi |-> 4]>>
    /\ nones = 2

----------------------------------------------------------------------------
(* Concurrent requests: the filter real_ip(trusted_proxies) is built once  *)
(* and serves every request; its closure owns the list (`move`) and only   *)
(* calls contains on it.  Up to MaxTasks requests are in flight, and each  *)
(* advances on its own: get_forwarded_for, then the closure of real_ip.    *)

ConcAddrs == { IpV4(1, 2, 3, 4), IpV4(10, 10, 10, 10) }

NoHeaders == [xff |-> None, xri |-> None, fwd |-> None]

ConcHeaders ==
    { NoHeaders,
      [NoHeaders EXCEPT !.xff = Some(<<"10.10.10.10">>)],
      [NoHeaders EXCEPT !.xff = Some(<<"::1", Comma, "10.10.10.10">>)],
      [NoHeaders EXCEPT !.xri = Some(<<"::1">>)] }

\* a request that has just arrived
Task(a, h) ==
    [addr |-> a, headers |-> h, forwarded_for |-> << >>,
     result |-> Pending, pc |-> "request"]

InitConc ==
    /\ trusted_proxies \in SUBSET ConcAddrs
    /\ addr = None
    /\ headers = NoHeaders
    /\ forwarded_for = << >>
    /\ result = Pending
    /\ pc = "serving"
    /\ NoIterator
    /\ NoCall
    /\ \E n \in 1..MaxTasks :
          tasks \in [1..n -> { Task(a, h) : a \in {None} \cup { Some(x) : x \in ConcAddrs },
                                            h \in ConcHeaders }]

\* get_forwarded_for() for request t
TaskGetForwardedFor(t) ==
    /\ tasks[t].pc = "request"
    /\ tasks' = [tasks EXCEPT ![t].forwarded_for = get_forwarded_for(tasks[t].headers).val,
                              ![t].pc = "extracted"]
    /\ UNCHANGED reqVars
    /\ UNCHANGED iterVars
    /\ UNCHANGED callVars

\* a variant whose closure adds the address it resolved to the trusted list
TaskRealIpLearning(t) ==
    /\ tasks[t].pc = "extracted"
    /\ LET ip == RealIpMap(trusted_proxies, tasks[t].addr, tasks[t].forwarded_for)
       IN  /\ tasks' = [tasks EXCEPT ![t].result = Reply(ip), ![t].pc = "done"]
           /\ trusted_proxies' = trusted_proxies \cup { ip[k] : k \in 1..Len(ip) }
    /\ UNCHANGED <<addr, headers, forwarded_for, result, pc>>
    /\ UNCHANGED iterVars
    /\ UNCHANGED callVars

\* the closure of real_ip for request t
TaskRealIp(t) ==
    /\ tasks[t].pc = "extracted"
    /\ tasks' = [tasks EXCEPT
                    ![t].result = Reply(RealIpMap(trusted_proxies, tasks[t].addr,
                                                  tasks[t].forwarded_for)),
                    ![t].pc = "done"]
    /\ UNCHANGED reqVars
    /\ UNCHANGED iterVars
    /\ UNCHANGED callVars

NextConc == \E t \in DOMAIN tasks : TaskGetForwardedFor(t) \/ TaskRealIp(t)

SpecConc == InitConc /\ [][NextConc]_vars

----------------------------------------------------------------------------
(* Properties of concurrent requests (specification SpecConc). *)

\* what request t yields when it is resolved alone against the list
ResolvedAlone(t) ==
    Reply(RealIpMap(trusted_proxies, tasks[t].addr,
                    get_forwarded_for(tasks[t].headers).val))

\* C13: no step of any interleaving changes the trusted list, and every
\* request that is done has the result it has when resolved alone, whatever
\* the other requests are and wherever they stand.
C13_TrustedListIsReadOnly ==
    /\ [][trusted_proxies' = trusted_proxies]_vars
    /\ [](\A t \in DOMAIN tasks :
             tasks[t].pc = "done" => tasks[t].result = ResolvedAlone(t))

\* two requests from the same trusted peer in flight: the first is done and
\* resolved to its declared hop while the second, declaring other hops, is
\* between extraction and resolution
C13_Witness ==
    /\ Len(tasks) = 2
    /\ tasks[1].addr # None
    /\ tasks[1].addr = tasks[2].addr
    /\ tasks[1].addr[1] \in trusted_proxies
    /\ tasks[1].pc = "done"
    /\ tasks[1].result.ip # tasks[1].addr
    /\ tasks[2].pc = "extracted"
    /\ tasks[2].forwarded_for # << >>
    /\ tasks[2].forwarded_for # tasks[1].forwarded_for

----------------------------------------------------------------------------
(* maybe_quoted and maybe_bracketed called on their own, on every text of  *)
(* up to MaxText symbols over the characters they tell apart and one they  *)
(* do not ("a").                                                           *)

UnwrapAlphabet == {Quote, Backslash, LBracket, RBracket, "a"}

InitCall ==
    /\ trusted_proxies = {}
    /\ addr = None
    /\ headers = NoHeaders
    /\ forwarded_for = << >>
    /\ result = Pending
    /\ pc = "call"
    /\ NoIterator
    /\ tasks = << >>
    /\ arg \in SeqsUpTo(UnwrapAlphabet, MaxText)
    /\ ret = NotCalled

MaybeQuoted ==
    /\ pc = "call"
    /\ ret' = [by |-> "maybe_quoted", ok |-> TRUE, val |-> maybe_quoted(arg)]
    /\ pc' = "returned"
    /\ UNCHANGED <<trusted_proxies, addr, headers, forwarded_for, result>>
    /\ UNCHANGED iterVars
    /\ UNCHANGED <<tasks, arg>>

MaybeBracketed ==
    /\ pc = "call"
    /\ ret' = [by |-> "maybe_bracketed",
               ok |-> maybe_bracketed_call(arg).ok,
               val |-> maybe_bracketed_call(arg).val]
    /\ pc' = "returned"
    /\ UNCHANGED <<trusted_proxies, addr, headers, forwarded_for, result>>
    /\ UNCHANGED iterVars
    /\ UNCHANGED <<tasks, arg>>

NextCall == MaybeQuoted \/ MaybeBracketed

SpecCall == InitCall /\ [][NextCall]_vars

----------------------------------------------------------------------------
(* Properties of maybe_quoted and maybe_bracketed (specification SpecCall). *)

\* the number of backslashes that stand right before position j of y
BackslashesBefore(y, j) ==
    MaxOf({ r \in 0..(j - 1) : \A m \in 1..r : y[j - m] = Backslash })

\* y with every backslash-x pair replaced by x, a last backslash without a
\* partner dropped
RECURSIVE Collapse(_)
Collapse(y) ==
    IF y = << >> THEN << >>
    ELSE IF y[1] # Backslash THEN <<y[1]>> \o Collapse(Tail(y))
    ELSE IF Len(y) = 1 THEN << >>
    ELSE <<y[2]>> \o Collapse(SubSeq(y, 3, Len(y)))

\* what the claim says of a text that begins with a double quote: the text
\* after that quote, up to the first unescaped double quote or to the end,
\* collapsed
QuotedReference(v) ==
    LET body == Tail(v)
        closers == { j \in 1..Len(body) :
                        body[j] = Quote /\ BackslashesBefore(body, j) % 2 = 0 }
        upto == IF closers # {} THEN MinOf(closers) - 1 ELSE Len(body)
    IN  Collapse(SubSeq(body, 1, upto))

\* C19: maybe_quoted returns a text that does not begin with a double quote
\* unchanged, and of one that does the characters after the leading quote up
\* to the first unescaped double quote (or to the end), every backslash-x
\* pair replaced by x; what follows the closing quote and a last backslash
\* without a partner are dropped.
C19_MaybeQuoted ==
    (pc = "returned" /\ ret.by = "maybe_quoted") =>
        ret.val = IF arg # << >> /\ arg[1] = Quote THEN QuotedReference(arg) ELSE arg

\* of "\"" the one escaped double quote is returned
C19_Witness ==
    /\ pc = "returned"
    /\ ret.by = "maybe_quoted"
    /\ arg = <<Quote, Backslash, Quote, Quote>>
    /\ ret.val = <<Quote>>

\* C20: maybe_bracketed returns, without ever slicing out of bounds, the text
\* without its first and last character when the first is [ and the last is
\* ], and the text unchanged in every other case: one bracket only, the
\* empty text, the one-character texts [ and ]; of [] it returns the empty
\* text.
C20_MaybeBracketed ==
    (pc = "returned" /\ ret.by = "maybe_bracketed") =>
        /\ ret.ok
        /\ ret.val = IF Len(arg) >= 2 /\ arg[1] = LBracket /\ arg[Len(arg)] = RBracket
                     THEN SubSeq(arg, 2, Len(arg) - 1)
                     ELSE arg
        /\ arg \in {<< >>, <<LBracket>>, <<RBracket>>} => ret.val = arg
        /\ arg = <<LBracket, RBracket>> => ret.val = << >>

\* of [] the empty text is returned
C20_Witness ==
    /\ pc = "returned"
    /\ ret.by = "maybe_bracketed"
    /\ arg = <<LBracket, RBracket>>
    /\ ret.ok
    /\ ret.val = << >>

=============================================================================
